---- MODULE Spec2Model ----
(***************************************************************************)
(* State-machine model of the OpenLinePlanner backend:                     *)
(*   - layers/protomaps.rs : download_pbf, the bulk-area acquisition       *)
(*     protocol (submit, poll status, download);                           *)
(*   - main.rs : startup (load_base_data, load_layers, HttpServer bind)    *)
(*     and the request handlers station_info and find_station working on   *)
(*     the shared RwLock<Layers>.                                          *)
(***************************************************************************)
EXTENDS Integers, Sequences, FiniteSets, TLC

None == "None"

(***************************************************************************)
(* Bounds of the model.                                                    *)
(***************************************************************************)
\* the status-poll counter is kept exactly up to MaxPolls and saturates there
\* (the loop itself is not bounded: it goes on polling at the saturated count)
MaxPolls == 2
\* number of requests the server handles at the same time
NumReq == 2
\* number of process startups followed in SpecBoot
MaxStartups == 3

VARIABLES
    \* ---- download_pbf (layers/protomaps.rs) ----
    aPc,        \* position of download_pbf
    area_req,   \* the job handle parsed from the submit response
    download,   \* the ProtomapsDownload returned by the last ready()
    aSent,      \* requests sent so far, per kind (history)
    aReady,     \* TRUE once a status poll returned complete = Some(true) (history)
    aFail,      \* the step whose failure ended download_pbf, or None (history)
    aDlUuid     \* the uuid the download request was addressed with, or None

acqVars == <<aPc, area_req, download, aSent, aReady, aFail, aDlUuid>>

VARIABLES
    \* ---- the file system (main.rs) ----
    dataDir,     \* data.dir: whether it can be read, and the files in it
    mapFile,     \* <cache.dir>/<stem>.map: "absent", "valid" or "corrupt"
    layersFile,  \* <cache.dir>/layers: "absent", "valid" or "corrupt"
    \* ---- the process (main.rs) ----
    mPc,         \* position of main
    mWhy,        \* why main panicked, or None (history)
    streets,     \* web::Data<Streets>: where it came from, or None
    buildings,   \* web::Data<Buildings>: where it came from, or None
    layers,      \* the Layers inside web::Data<RwLock<Layers>>
    lockReaders, \* the requests holding a read guard of the RwLock
    lockWriters, \* the number of write guards of the RwLock that are held
    poisoned,    \* TRUE once a writer panicked holding the lock
    startups,    \* number of process startups so far (history)
    builds,      \* number of times the base data was built from the extract (history)
                 \* (a build that panics half-way is not counted)
    saves,       \* number of times the built data was saved to the cache (history)
    \* ---- the requests (main.rs) ----
    rPc,         \* position of each request
    rReq,        \* its deserialized body
    rSnap,       \* its merged_layers / layer local
    rOut         \* its response

fsVars == <<dataDir, mapFile, layersFile>>
memVars == <<streets, buildings, layers, lockReaders, lockWriters, poisoned>>
histVars == <<startups, builds, saves>>
mainVars == <<mPc, mWhy>>
reqVars == <<rPc, rReq, rSnap, rOut>>
srvVars == <<fsVars, memVars, histVars, mainVars, reqVars>>

VARIABLES
    \* ---- one coverage computation (coverage::houses_for_stations) ----
    cPc,         \* "ready": the inputs are given; "done": the CoverageMap is there
    cIn,         \* stations, centroids, method and coverage radius
    cOut         \* the CoverageMap

covVars == <<cPc, cIn, cOut>>

vars == <<acqVars, srvVars, covVars>>

(***************************************************************************)
(* layers/protomaps.rs                                                     *)
(***************************************************************************)
Uuids == {"u1", "u2"}
StatusUrls == {"url1", "url2"}

\* struct ProtomapsAreaRequest { uuid: String, url: String }
ProtomapsAreaRequest == [uuid : Uuids, url : StatusUrls]

\* struct ProtomapsDownload { uuid: Option<String>, complete: Option<bool> }
\* (an Option<bool> is written None, "Some(true)" or "Some(false)")
ProtomapsDownload ==
    [uuid : Uuids \cup {None}, complete : {None, "Some(true)", "Some(false)"}]

\* values of the locals before they are assigned
NoAreaRequest == [uuid |-> None, url |-> None]
NoDownload == [uuid |-> None, complete |-> None]

RequestKinds == {"cookie", "submit", "poll", "download"}

\* (mutant) unwrap_or(true): a status without a completion flag counts as complete
CompleteUnwrapOrTrue(d) ==
    IF d.complete = None THEN TRUE ELSE d.complete = "Some(true)"

\* (mutant) is_some(): any completion flag, also Some(false), ends the polling
CompleteIsSome(d) == d.complete # None

\* download.complete.unwrap_or(false)
CompleteUnwrapOrFalse(d) ==
    IF d.complete = None THEN FALSE ELSE d.complete = "Some(true)"

\* one more request of kind k has been sent; polls are counted up to MaxPolls
Sent(k) ==
    [aSent EXCEPT ![k] = IF k = "poll" /\ @ >= MaxPolls THEN @ ELSE @ + 1]

\* (mutant) a failed status poll is swallowed and the loop polls again
AcqErrorRetryPoll(step) ==
    /\ aPc' = IF step = "poll" THEN "poll" ELSE "error"
    /\ aFail' = step

\* an `?` that returns Err from download_pbf at step `step`
AcqError(step) ==
    /\ aPc' = "error"
    /\ aFail' = step

\* download_pbf has not been called
AcqIdle ==
    /\ aPc = "idle"
    /\ area_req = NoAreaRequest
    /\ download = NoDownload
    /\ aSent = [k \in RequestKinds |-> 0]
    /\ aReady = FALSE
    /\ aFail = None
    /\ aDlUuid = None

\* download_pbf is called; reqwest::Client::builder().cookie_store(true).build()?
BuildClient ==
    /\ aPc = "idle"
    /\ \/ aPc' = "cookie" /\ UNCHANGED aFail
       \/ AcqError("client")
    /\ UNCHANGED <<area_req, download, aSent, aReady, aDlUuid>>
    /\ UNCHANGED <<srvVars, covVars>>

\* let resp = client.get(".../downloads/osm").send().await;  the Result is
\* never inspected: a failure of this request does not end download_pbf
CookieRequest ==
    /\ aPc = "cookie"
    /\ aSent' = Sent("cookie")
    /\ aPc' = "submit"
    /\ UNCHANGED <<area_req, download, aReady, aFail, aDlUuid>>
    /\ UNCHANGED <<srvVars, covVars>>

\* client.post(".../downloads/osm")...json(&request).send().await?.text().await?
SubmitRequest ==
    /\ aPc = "submit"
    /\ aSent' = Sent("submit")
    /\ \/ aPc' = "parse" /\ UNCHANGED aFail
       \/ AcqError("submit")
    /\ UNCHANGED <<area_req, download, aReady, aDlUuid>>
    /\ UNCHANGED <<srvVars, covVars>>

\* serde_json::from_str::<ProtomapsAreaRequest>(&area_req)?
ParseAreaRequest ==
    /\ aPc = "parse"
    /\ \/ \E h \in ProtomapsAreaRequest :
            /\ area_req' = h
            /\ aPc' = "poll"
            /\ UNCHANGED aFail
       \/ AcqError("parse") /\ UNCHANGED area_req
    /\ UNCHANGED <<download, aSent, aReady, aDlUuid>>
    /\ UNCHANGED <<srvVars, covVars>>

\* ready(): client.get(&self.url)...send().await?   (the request goes out)
ReadySend ==
    /\ aPc = "poll"
    /\ aSent' = Sent("poll")
    /\ \/ aPc' = "poll_wait" /\ UNCHANGED aFail
       \/ AcqError("poll")
    /\ UNCHANGED <<area_req, download, aReady, aDlUuid>>
    /\ UNCHANGED <<srvVars, covVars>>

\* ready(): Ok(resp.json().await?)   (the status body is parsed)
ReadyJson ==
    /\ aPc = "poll_wait"
    /\ \/ \E d \in ProtomapsDownload :
            /\ download' = d
            /\ aReady' = (aReady \/ d.complete = "Some(true)")
            /\ aPc' = "check"
            /\ UNCHANGED aFail
       \/ AcqError("poll") /\ UNCHANGED <<download, aReady>>
    /\ UNCHANGED <<area_req, aSent, aDlUuid>>
    /\ UNCHANGED <<srvVars, covVars>>

\* wait_until_ready: loop { ...; if download.complete.unwrap_or(false) { return } }
WaitUntilReadyCheck ==
    /\ aPc = "check"
    /\ aPc' = IF CompleteUnwrapOrFalse(download) THEN "download" ELSE "poll"
    /\ UNCHANGED <<area_req, download, aSent, aReady, aFail, aDlUuid>>
    /\ UNCHANGED <<srvVars, covVars>>

\* (mutant) the download is addressed with the uuid of the job handle
DownloadSendHandleUuid ==
    /\ aPc = "download"
    /\ aSent' = Sent("download")
    /\ aDlUuid' = area_req.uuid
    /\ \/ aPc' = "download_wait" /\ UNCHANGED aFail
       \/ AcqError("download")
    /\ UNCHANGED <<area_req, download, aReady>>
    /\ UNCHANGED <<srvVars, covVars>>

\* download(): self.uuid.ok_or(anyhow!("did not get valid uuid for download"))?
\* is evaluated while the URL is formatted, before the request is sent
DownloadSend ==
    /\ aPc = "download"
    /\ IF download.uuid = None
         THEN /\ AcqError("uuid")
              /\ UNCHANGED <<aSent, aDlUuid>>
         ELSE /\ aSent' = Sent("download")
              /\ aDlUuid' = download.uuid
              /\ \/ aPc' = "download_wait" /\ UNCHANGED aFail
                 \/ AcqError("download")
    /\ UNCHANGED <<area_req, download, aReady>>
    /\ UNCHANGED <<srvVars, covVars>>

\* Ok(response.bytes().await?), then OsmPbfReader::new(...) and Ok(pbf_reader)
DownloadBytes ==
    /\ aPc = "download_wait"
    /\ \/ aPc' = "done" /\ UNCHANGED aFail
       \/ AcqError("download")
    /\ UNCHANGED <<area_req, download, aSent, aReady, aDlUuid>>
    /\ UNCHANGED <<srvVars, covVars>>

NextAcq ==
    \/ BuildClient
    \/ CookieRequest
    \/ SubmitRequest
    \/ ParseAreaRequest
    \/ ReadySend
    \/ ReadyJson
    \/ WaitUntilReadyCheck
    \/ DownloadSend
    \/ DownloadBytes

(***************************************************************************)
(* main.rs: the data                                                       *)
(***************************************************************************)
\* the files data.dir may hold: a map extract and something else
PbfFile == [stem |-> "city", ext |-> "PBF"]
OtherFile == [stem |-> "notes", ext |-> "txt"]
Files == {PbfFile, OtherFile}
\* data.dir: missing or unreadable, empty, without an extract, with the extract
DataDirs ==
    { [readable |-> FALSE, files |-> {}],
      [readable |-> TRUE,  files |-> {}],
      [readable |-> TRUE,  files |-> {OtherFile}],
      [readable |-> TRUE,  files |-> Files] }

\* ASCII lower-casing of the extensions that occur
LowerAscii(e) == IF e \in {"PBF", "pbf"} THEN "pbf" ELSE e

\* (mutant) the extension is not looked at: any entry passes for the extract
IsPbfAny(f) == f \in Files

\* path.extension().map(|e| e.eq_ignore_ascii_case("pbf")) == Some(true)
IsPbf(f) == LowerAscii(f.ext) = "pbf"

\* the entries .find(...) can return (read_dir gives no order)
PbfFilesIn(dir) == {f \in dir.files : IsPbf(f)}

\* Layers: a sequence of layers, each of one type from one ingested area
LayerTypes == {"Residential", "Work"}
\* Layers::default(): no layer
DefaultLayers == << >>
\* the value of `layers` in main before load_layers has returned
NotLoaded == << [layer_type |-> None, area |-> None, centroids |-> << >>] >>
StoredLayers ==
    << [layer_type |-> "Residential", area |-> "a1", centroids |-> <<"c1", "c2">>],
       [layer_type |-> "Work",        area |-> "a1", centroids |-> <<"c3">>],
       [layer_type |-> "Residential", area |-> "a2", centroids |-> <<"c2", "c4">>] >>
IngestedLayers ==
    << [layer_type |-> "Work",        area |-> "a3", centroids |-> <<"c5">>],
       [layer_type |-> "Residential", area |-> "a3", centroids |-> <<"c6">>] >>
LayerChoices == {DefaultLayers, StoredLayers, IngestedLayers}

RECURSIVE Dedup(_)
\* deduplication keeping the first occurrence
Dedup(q) ==
    IF q = << >> THEN << >>
    ELSE LET init == Dedup(SubSeq(q, 1, Len(q) - 1))
             last == q[Len(q)]
         IN  IF \E i \in 1..Len(init) : init[i] = last THEN init
             ELSE Append(init, last)

RECURSIVE ConcatCentroids(_)
ConcatCentroids(ls) ==
    IF ls = << >> THEN << >>
    ELSE ConcatCentroids(SubSeq(ls, 1, Len(ls) - 1)) \o ls[Len(ls)].centroids

SelectType(ls, t) == SelectSeq(ls, LAMBDA l : l.layer_type = t)

\* the types of ls in the order of their first occurrence
TypesInOrder(ls) == Dedup([i \in 1..Len(ls) |-> ls[i].layer_type])

\* Layers::all_merged_by_type: one merged layer per type
all_merged_by_type(ls) ==
    LET ts == TypesInOrder(ls)
    IN  [i \in 1..Len(ts) |->
            [layer_type |-> ts[i],
             centroids  |-> Dedup(ConcatCentroids(SelectType(ls, ts[i])))]]

\* Layers::all_merged: the single layer that merges every layer
all_merged(ls) ==
    [layer_type |-> "All", centroids |-> Dedup(ConcatCentroids(ls))]

\* request bodies
Stations == {"s1"}
StationLists == {<< >>, <<"s1">>}
Methods == {"Relative", "Absolute"}
Routings == {"Osm", "Geo"}
Route == <<"p1", "p2">>
Reqs == 1..NumReq

NoReq == [kind |-> None, stations |-> << >>, method |-> None, routing |-> None]
NoOut == [status |-> None, body |-> << >>]

\* the bodies used when several requests run at once: one station, method and
\* routing omitted
PlainBodies ==
    [kind : {"station_info", "find_station"}, stations : {<<"s1">>},
     method : {None}, routing : {None}]

\* every body: method and routing omitted or given
AllBodies ==
    [kind : {"station_info", "find_station"}, stations : StationLists,
     method : Methods \cup {None}, routing : Routings \cup {None}]

\* (mutant) the default method is Absolute
MethodOfDefaultAbsolute(req) == IF req.method = None THEN "Absolute" ELSE req.method

\* request.method.as_ref().unwrap_or(&Method::Relative)
MethodOf(req) == IF req.method = None THEN "Relative" ELSE req.method

\* request.routing.as_ref().unwrap_or(&Routing::Osm)
RoutingOf(req) == IF req.routing = None THEN "Osm" ELSE req.routing

\* the call coverage::houses_for_stations(&request.stations,
\*   &layer.get_centroids(), method, routing, &streets), as its arguments
houses_for_stations(stns, cents, method, routing, strts) ==
    [fn |-> "houses_for_stations", stations |-> stns, centroids |-> cents,
     method |-> method, routing |-> routing, streets |-> strts]

\* the call station::find_optimal_station(route, 300f64, centroids, stations,
\*   method, routing, &streets), as its arguments
find_optimal_station(route, radius, cents, stns, method, routing, strts) ==
    [fn |-> "find_optimal_station", route |-> route, radius |-> radius,
     centroids |-> cents, stations |-> stns, method |-> method,
     routing |-> routing, streets |-> strts]

\* (mutant) the entries come out in reverse order of the merged layers
coverage_info_reversed(req, merged_layers, strts) ==
    [i \in 1..Len(merged_layers) |->
        LET layer == merged_layers[Len(merged_layers) + 1 - i]
        IN  <<layer.layer_type,
              houses_for_stations(req.stations, layer.centroids,
                                  MethodOf(req), RoutingOf(req), strts)>>]

\* station_info: merged_layers.iter().map(|layer| (type, houses_for_stations(..))).collect()
coverage_info(req, merged_layers, strts) ==
    [i \in 1..Len(merged_layers) |->
        <<merged_layers[i].layer_type,
          houses_for_stations(req.stations, merged_layers[i].centroids,
                              MethodOf(req), RoutingOf(req), strts)>>]

\* find_station: the one call on the layer merging everything
optimal_station(req, layer, strts) ==
    find_optimal_station(Route, 300, layer.centroids, req.stations,
                         MethodOf(req), RoutingOf(req), strts)

\* (mutant) the layers are read without regard to a writer
CanReadAlways == TRUE

\* std::sync::RwLock::read can take the lock: no write guard is held
CanRead == lockWriters = 0

\* std::sync::RwLock::write can take the lock: no guard at all is held
CanWrite == lockWriters = 0 /\ lockReaders = {}

(***************************************************************************)
(* The coverage computation behind coverage::houses_for_stations under     *)
(* network-distance routing: StreetGraph.distance and the CoverageEngine.  *)
(***************************************************************************)
\* the street graph: the "T" A-B-C, B-D, and a node E no street leads to
Nodes == {"A", "B", "C", "D", "E"}
Edges == { {"A", "B"}, {"B", "C"}, {"B", "D"} }
EdgeLength(e) == 100

\* the distance of a node no path leads to
Unreachable == -1

Neighbours(n) == {m \in Nodes : {m, n} \in Edges}

MinOf(S) == CHOOSE x \in S : \A y \in S : x <= y

RECURSIVE Relax(_, _)
\* k rounds of relaxation of the tentative distances d
Relax(d, k) ==
    IF k = 0 THEN d
    ELSE Relax([n \in Nodes |->
                  LET via == {d[m] + EdgeLength({m, n}) :
                                 m \in {x \in Neighbours(n) : d[x] # Unreachable}}
                      all == via \cup (IF d[n] = Unreachable THEN {} ELSE {d[n]})
                  IN  IF all = {} THEN Unreachable ELSE MinOf(all)],
               k - 1)

\* the single-source shortest-path expansion from every node, done once and
\* reused by all the queries that share the source
Expansions ==
    [a \in Nodes |->
        Relax([n \in Nodes |-> IF n = a THEN 0 ELSE Unreachable],
              Cardinality(Nodes) - 1)]

\* StreetGraph.distance(a, b): the expansion from a, read at b
distance(a, b) == Expansions[a][b]

\* (mutant) the coverage radius is not applied: every reachable station counts
InRangeAnyDistance(st, c, radius) == distance(st, c.at) # Unreachable

\* the centroid is within the coverage radius of the station
InRange(st, c, radius) ==
    /\ distance(st, c.at) # Unreachable
    /\ distance(st, c.at) <= radius

\* the indices of the stations the centroid is in range of
InRangeOf(stns, c, radius) == {i \in 1..Len(stns) : InRange(stns[i], c, radius)}

\* Absolute: the nearest in-range station, the lowest index breaking ties
Nearest(stns, c, radius) ==
    LET I == InRangeOf(stns, c, radius)
    IN  CHOOSE i \in I :
            \A j \in I : \/ distance(stns[i], c.at) < distance(stns[j], c.at)
                         \/ distance(stns[i], c.at) = distance(stns[j], c.at) /\ i <= j

\* the stations (indices) a centroid is attributed to
AttributedTo(stns, c, method, radius) ==
    IF InRangeOf(stns, c, radius) = {} THEN {}
    ELSE IF method = "Absolute" THEN {Nearest(stns, c, radius)}
    ELSE InRangeOf(stns, c, radius)

\* the CoverageMap: for every station something is attributed to, the centroids
\* attributed to it, each with the weight that is shared and the stations
\* (index and distance) it is shared among
CoverageMap(stns, cents, method, radius) ==
    LET entry(i) ==
            [station   |-> stns[i],
             index     |-> i,
             centroids |->
                 { [id |-> c.id, weight |-> c.weight,
                    among |-> {<<j, distance(stns[j], c.at)>> :
                                  j \in AttributedTo(stns, c, method, radius)}] :
                   c \in {x \in cents : i \in AttributedTo(stns, x, method, radius)} }]
    IN  { entry(i) : i \in {j \in 1..Len(stns) :
                              \E c \in cents : j \in AttributedTo(stns, c, method, radius)} }

\* the inputs the computation is tried on
StationPlacements ==
    {<<a>> : a \in Nodes} \cup {<<a, b>> : a \in Nodes, b \in Nodes}
CentroidSets ==
    { {[id |-> "c1", at |-> n, weight |-> 50]} : n \in Nodes } \cup
    { {[id |-> "c1", at |-> n, weight |-> 50], [id |-> "c2", at |-> "B", weight |-> 20]} :
        n \in Nodes }
Radii == {150, 200, 250}
CoverageInputs ==
    [stations : StationPlacements, centroids : CentroidSets,
     method : {"Relative", "Absolute"}, radius : Radii]

\* the scenario: one centroid of weight 50 at D, the station at A, radius 250
Scenario ==
    [stations |-> <<"A">>,
     centroids |-> {[id |-> "c1", at |-> "D", weight |-> 50]},
     method |-> "Relative", radius |-> 250]

CovIdle ==
    /\ cPc = "ready"
    /\ cIn = Scenario
    /\ cOut = {}

\* the computation is run on its inputs
ComputeCoverage ==
    /\ cPc = "ready"
    /\ cOut' = CoverageMap(cIn.stations, cIn.centroids, cIn.method, cIn.radius)
    /\ cPc' = "done"
    /\ UNCHANGED <<cIn, acqVars, srvVars>>

\* the next computation: the stations are moved, or the centroids, the method
\* or the radius changed
NextInputs ==
    /\ cPc = "done"
    /\ \/ \E x \in StationPlacements : cIn' = [cIn EXCEPT !.stations = x]
       \/ \E x \in CentroidSets : cIn' = [cIn EXCEPT !.centroids = x]
       \/ \E x \in Methods : cIn' = [cIn EXCEPT !.method = x]
       \/ \E x \in Radii : cIn' = [cIn EXCEPT !.radius = x]
    /\ cIn' \in CoverageInputs
    /\ cOut' = {}
    /\ cPc' = "ready"
    /\ UNCHANGED <<acqVars, srvVars>>

(***************************************************************************)
(* main.rs: startup                                                        *)
(***************************************************************************)
\* an unwrap()/expect() that fails: the process aborts
Panic(why) ==
    /\ mPc' = "panicked"
    /\ mWhy' = why

\* the process has just been started: nothing is loaded, no request exists
ProcessStart ==
    /\ mPc = "start"
    /\ mWhy = None
    /\ streets = None
    /\ buildings = None
    /\ layers = NotLoaded
    /\ lockReaders = {}
    /\ lockWriters = 0
    /\ poisoned = FALSE
    /\ rPc = [r \in Reqs |-> "idle"]
    /\ rReq = [r \in Reqs |-> NoReq]
    /\ rSnap = [r \in Reqs |-> << >>]
    /\ rOut = [r \in Reqs |-> NoOut]

\* main: setup_logger().expect(..) and Config::builder()...build().unwrap()
Setup ==
    /\ mPc = "start"
    /\ \/ mPc' = "load_base" /\ UNCHANGED mWhy
       \/ Panic("setup")
    /\ UNCHANGED <<fsVars, memVars, histVars, reqVars, acqVars, covVars>>

\* load_base_data: fs::read_dir(data.dir).unwrap() and
\* .find(|path| extension is pbf).expect("no pbf file found in data directory")
FindPbf ==
    /\ mPc = "load_base"
    /\ IF ~dataDir.readable THEN Panic("read_dir")
       ELSE IF PbfFilesIn(dataDir) = {} THEN Panic("no_pbf")
       ELSE mPc' = "cache_dir" /\ UNCHANGED mWhy
    /\ UNCHANGED <<fsVars, memVars, histVars, reqVars, acqVars, covVars>>

\* load_base_data: fs::create_dir_all(&path).expect("failed to create cache dir")
CreateCacheDir ==
    /\ mPc = "cache_dir"
    /\ \/ mPc' = "is_file" /\ UNCHANGED mWhy
       \/ Panic("cache_dir")
    /\ UNCHANGED <<fsVars, memVars, histVars, reqVars, acqVars, covVars>>

\* (mutant) a cache file that cannot be loaded is ignored and the data rebuilt
LoadPreprocessedOrRebuild ==
    /\ mPc = "is_file"
    /\ mapFile # "absent"
    /\ IF mapFile = "valid"
         THEN /\ streets' = "cache"
              /\ buildings' = "cache"
              /\ mPc' = "load_layers"
              /\ UNCHANGED builds
         ELSE /\ mPc' = "save"
              /\ builds' = builds + 1
              /\ UNCHANGED <<streets, buildings>>
    /\ UNCHANGED <<fsVars, layers, lockReaders, lockWriters, poisoned, startups,
                   saves, mWhy, reqVars, acqVars, covVars>>

\* load_base_data: if path.is_file() { load_preprocessed_data(&path).unwrap(); return }
LoadPreprocessed ==
    /\ mPc = "is_file"
    /\ mapFile # "absent"
    /\ IF mapFile = "valid"
         THEN /\ streets' = "cache"
              /\ buildings' = "cache"
              /\ mPc' = "load_layers"
              /\ UNCHANGED mWhy
         ELSE /\ Panic("load_cache")
              /\ UNCHANGED <<streets, buildings>>
    /\ UNCHANGED <<fsVars, layers, lockReaders, lockWriters, poisoned, histVars,
                   reqVars, acqVars, covVars>>

\* (mutant) the extract is read and the data rebuilt whether or not the cache
\* file exists
BuildBaseDataAlways ==
    /\ mPc = "is_file"
    /\ \/ /\ mPc' = "save"
          /\ builds' = builds + 1
          /\ UNCHANGED mWhy
       \/ /\ Panic("build")
          /\ UNCHANGED builds
    /\ UNCHANGED <<fsVars, memVars, startups, saves, reqVars, acqVars, covVars>>

\* load_base_data: File::open(pbf_file).unwrap(), load_streetgraph, load_buildings
BuildBaseData ==
    /\ mPc = "is_file"
    /\ mapFile = "absent"
    /\ \/ /\ mPc' = "save"
          /\ builds' = builds + 1
          /\ UNCHANGED mWhy
       \/ /\ Panic("build")
          /\ UNCHANGED builds
    /\ UNCHANGED <<fsVars, memVars, startups, saves, reqVars, acqVars, covVars>>

\* load_base_data: save_preprocessed_data(buildings, streets, &path).unwrap()
\* and the return of the built data; a failed save may leave a partial file
SavePreprocessed ==
    /\ mPc = "save"
    /\ \/ /\ mapFile' = "valid"
          /\ saves' = saves + 1
          /\ streets' = "pbf"
          /\ buildings' = "pbf"
          /\ mPc' = "load_layers"
          /\ UNCHANGED mWhy
       \/ /\ mapFile' \in {"absent", "corrupt"}
          /\ Panic("save")
          /\ UNCHANGED <<saves, streets, buildings>>
    /\ UNCHANGED <<dataDir, layersFile, layers, lockReaders, lockWriters, poisoned,
                   startups, builds, reqVars, acqVars, covVars>>

\* (mutant) unwrap() in place of unwrap_or_default(): a layers file that is
\* missing or cannot be loaded aborts startup
LoadLayersUnwrap ==
    /\ mPc = "load_layers"
    /\ IF layersFile = "valid"
         THEN /\ layers' = StoredLayers
              /\ mPc' = "bind"
              /\ UNCHANGED mWhy
         ELSE /\ Panic("load_layers")
              /\ UNCHANGED layers
    /\ UNCHANGED <<fsVars, streets, buildings, lockReaders, lockWriters, poisoned,
                   histVars, reqVars, acqVars, covVars>>

\* load_layers: persistence::load_layers(&path).unwrap_or_default()
LoadLayers ==
    /\ mPc = "load_layers"
    /\ layers' = IF layersFile = "valid" THEN StoredLayers ELSE DefaultLayers
    /\ mPc' = "bind"
    /\ UNCHANGED <<fsVars, streets, buildings, lockReaders, lockWriters, poisoned,
                   histVars, mWhy, reqVars, acqVars, covVars>>

\* (mutant) the server is bound and run before the data is loaded
BindAndRunEarly ==
    /\ mPc \in {"load_base", "bind"}
    /\ mPc' \in {"serving", "bind_err"}
    /\ UNCHANGED <<fsVars, memVars, histVars, mWhy, reqVars, acqVars, covVars>>

\* main: HttpServer::new(..).bind(("0.0.0.0", 8080))?.run().await
BindAndRun ==
    /\ mPc = "bind"
    /\ mPc' \in {"serving", "bind_err"}
    /\ UNCHANGED <<fsVars, memVars, histVars, mWhy, reqVars, acqVars, covVars>>

\* the process has ended (or is stopped) and is started again on the same files
Restart ==
    /\ mPc \in {"serving", "panicked", "bind_err"}
    /\ startups < MaxStartups
    /\ startups' = startups + 1
    /\ mPc' = "start"
    /\ mWhy' = None
    /\ streets' = None
    /\ buildings' = None
    /\ layers' = NotLoaded
    /\ lockReaders' = {}
    /\ lockWriters' = 0
    /\ poisoned' = FALSE
    /\ rPc' = [r \in Reqs |-> "idle"]
    /\ rReq' = [r \in Reqs |-> NoReq]
    /\ rSnap' = [r \in Reqs |-> << >>]
    /\ rOut' = [r \in Reqs |-> NoOut]
    /\ UNCHANGED <<fsVars, builds, saves, acqVars, covVars>>

(***************************************************************************)
(* main.rs: the request handlers                                           *)
(***************************************************************************)
\* the response Ok(..) / Err(OLPError)
Ok(body) == [status |-> "Ok", body |-> body]
Err == [status |-> "Err", body |-> << >>]

\* actix dispatches a request with a deserialized body to its handler; the
\* routes exist only in the running HttpServer
Receive(r, bodies) ==
    /\ mPc = "serving"
    /\ rPc[r] = "idle"
    /\ \E b \in bodies : rReq' = [rReq EXCEPT ![r] = b]
    /\ rPc' = [rPc EXCEPT ![r] = "start"]
    /\ UNCHANGED <<fsVars, memVars, histVars, mainVars, rSnap, rOut, acqVars, covVars>>

\* layers.read().map_err(OLPError::from_error)?  : waits while a writer holds
\* the lock; on a poisoned lock the handler returns the error
ReadLock(r) ==
    /\ rPc[r] = "start"
    /\ CanRead
    /\ IF poisoned
         THEN /\ rOut' = [rOut EXCEPT ![r] = Err]
              /\ rPc' = [rPc EXCEPT ![r] = "done"]
              /\ UNCHANGED lockReaders
         ELSE /\ lockReaders' = lockReaders \cup {r}
              /\ rPc' = [rPc EXCEPT ![r] = "locked"]
              /\ UNCHANGED rOut
    /\ UNCHANGED <<fsVars, streets, buildings, layers, lockWriters, poisoned,
                   histVars, mainVars, rReq, rSnap, acqVars, covVars>>

\* (mutant) the read guard is bound to a variable and lives to the end of the
\* handler: it is still held while the computation runs
MergeLayersKeepGuard(r) ==
    /\ rPc[r] = "locked"
    /\ rSnap' = [rSnap EXCEPT ![r] =
                    IF rReq[r].kind = "station_info"
                      THEN all_merged_by_type(layers)
                      ELSE <<all_merged(layers)>>]
    /\ rPc' = [rPc EXCEPT ![r] = "compute"]
    /\ UNCHANGED <<fsVars, memVars, histVars, mainVars, rReq, rOut, acqVars, covVars>>

\* (mutant) the handler merges the shared layers in place
MergeLayersInPlace(r) ==
    /\ rPc[r] = "locked"
    /\ rSnap' = [rSnap EXCEPT ![r] =
                    IF rReq[r].kind = "station_info"
                      THEN all_merged_by_type(layers)
                      ELSE <<all_merged(layers)>>]
    /\ layers' = [i \in 1..Len(rSnap'[r]) |->
                    [layer_type |-> rSnap'[r][i].layer_type, area |-> "merged",
                     centroids |-> rSnap'[r][i].centroids]]
    /\ lockReaders' = lockReaders \ {r}
    /\ rPc' = [rPc EXCEPT ![r] = "compute"]
    /\ UNCHANGED <<fsVars, streets, buildings, lockWriters, poisoned,
                   histVars, mainVars, rReq, rOut, acqVars, covVars>>

\* .all_merged_by_type() / .all_merged() under the read guard; the guard is a
\* temporary of the let statement and is dropped at its end
MergeLayers(r) ==
    /\ rPc[r] = "locked"
    /\ rSnap' = [rSnap EXCEPT ![r] =
                    IF rReq[r].kind = "station_info"
                      THEN all_merged_by_type(layers)
                      ELSE <<all_merged(layers)>>]
    /\ lockReaders' = lockReaders \ {r}
    /\ rPc' = [rPc EXCEPT ![r] = "compute"]
    /\ UNCHANGED <<fsVars, streets, buildings, layers, lockWriters, poisoned,
                   histVars, mainVars, rReq, rOut, acqVars, covVars>>

\* (mutant) find_station answers with an error when nothing can be gained
\* (the merged layer holds no centroid)
ComputeErrOnNoGain(r) ==
    /\ rPc[r] = "compute"
    /\ rOut' = [rOut EXCEPT ![r] =
                    IF rReq[r].kind = "station_info"
                      THEN Ok(coverage_info(rReq[r], rSnap[r], streets))
                      ELSE IF rSnap[r][1].centroids = << >>
                             THEN Err
                             ELSE Ok(<<optimal_station(rReq[r], rSnap[r][1], streets)>>)]
    /\ rSnap' = [rSnap EXCEPT ![r] = << >>]
    /\ rPc' = [rPc EXCEPT ![r] = "done"]
    /\ UNCHANGED <<fsVars, memVars, histVars, mainVars, rReq, acqVars, covVars>>

\* the rest of the handler body: the computation on the merged layers and Ok(..)
Compute(r) ==
    /\ rPc[r] = "compute"
    /\ rOut' = [rOut EXCEPT ![r] =
                    IF rReq[r].kind = "station_info"
                      THEN Ok(coverage_info(rReq[r], rSnap[r], streets))
                      ELSE Ok(<<optimal_station(rReq[r], rSnap[r][1], streets)>>)]
    /\ rSnap' = [rSnap EXCEPT ![r] = << >>]
    /\ rPc' = [rPc EXCEPT ![r] = "done"]
    /\ UNCHANGED <<fsVars, memVars, histVars, mainVars, rReq, acqVars, covVars>>

\* the response is sent and the request is over
Respond(r) ==
    /\ rPc[r] = "done"
    /\ rPc' = [rPc EXCEPT ![r] = "idle"]
    /\ rReq' = [rReq EXCEPT ![r] = NoReq]
    /\ rOut' = [rOut EXCEPT ![r] = NoOut]
    /\ UNCHANGED <<fsVars, memVars, histVars, mainVars, rSnap, acqVars, covVars>>

(***************************************************************************)
(* The writer of the layers lock: the layer services registered by         *)
(* layers::layers() and layers::osm(), which swap in ingested layers.      *)
(***************************************************************************)
WriteLock ==
    /\ mPc = "serving"
    /\ CanWrite
    /\ ~poisoned
    /\ lockWriters' = lockWriters + 1
    /\ UNCHANGED <<fsVars, streets, buildings, layers, lockReaders, poisoned,
                   histVars, mainVars, reqVars, acqVars, covVars>>

WriteSwap ==
    /\ lockWriters > 0
    /\ \E ls \in LayerChoices \ {layers} : layers' = ls
    /\ lockWriters' = lockWriters - 1
    /\ UNCHANGED <<fsVars, streets, buildings, lockReaders, poisoned,
                   histVars, mainVars, reqVars, acqVars, covVars>>

\* the writer panics holding the guard: the lock is released and poisoned
WritePanic ==
    /\ lockWriters > 0
    /\ poisoned' = TRUE
    /\ lockWriters' = lockWriters - 1
    /\ UNCHANGED <<fsVars, streets, buildings, layers, lockReaders,
                   histVars, mainVars, reqVars, acqVars, covVars>>

(***************************************************************************)
(* Specifications                                                          *)
(***************************************************************************)
\* the files the process may find when it is first started
InitFiles ==
    /\ dataDir \in DataDirs
    /\ mapFile \in {"absent", "valid", "corrupt"}
    /\ layersFile \in {"absent", "valid", "corrupt"}

InitServer ==
    /\ InitFiles
    /\ ProcessStart
    /\ startups = 1
    /\ builds = 0
    /\ saves = 0

\* a server that is not started: the files are there, the process idles
ServerOff ==
    /\ dataDir = [readable |-> TRUE, files |-> {PbfFile}]
    /\ mapFile = "absent"
    /\ layersFile = "absent"
    /\ ProcessStart
    /\ startups = 1
    /\ builds = 0
    /\ saves = 0

Startup ==
    \/ Setup
    \/ FindPbf
    \/ CreateCacheDir
    \/ LoadPreprocessed
    \/ BuildBaseData
    \/ SavePreprocessed
    \/ LoadLayers
    \/ BindAndRun

Writer ==
    \/ WriteLock
    \/ WriteSwap
    \/ WritePanic

\* one startup of the server, then concurrent requests and layer swaps
Init == InitServer /\ AcqIdle /\ CovIdle

Next ==
    \/ Startup
    \/ Writer
    \/ \E r \in Reqs : Receive(r, PlainBodies)
    \/ \E r \in Reqs : ReadLock(r)
    \/ \E r \in Reqs : MergeLayers(r)
    \/ \E r \in Reqs : Compute(r)
    \/ \E r \in Reqs : Respond(r)

Spec == Init /\ [][Next]_vars

\* one startup of the server, then one request at a time with any body
NextQuery ==
    \/ Startup
    \/ Writer
    \/ Receive(1, AllBodies)
    \/ ReadLock(1)
    \/ MergeLayers(1)
    \/ Compute(1)
    \/ Respond(1)

SpecQuery == Init /\ [][NextQuery]_vars

\* a sequence of startups of the process on the same files
NextBoot ==
    \/ Startup
    \/ Restart

SpecBoot == Init /\ [][NextBoot]_vars

\* download_pbf alone
InitAcq == ServerOff /\ AcqIdle /\ CovIdle

SpecAcq == InitAcq /\ [][NextAcq]_vars

\* the coverage computation alone
InitCov == ServerOff /\ AcqIdle /\ CovIdle

NextCov ==
    \/ ComputeCoverage
    \/ NextInputs

SpecCov == InitCov /\ [][NextCov]_vars

\* the async runtime keeps driving the future: a step that can be taken is taken
FairAcq == SpecAcq /\ WF_vars(NextAcq)

(***************************************************************************)
(* Properties of download_pbf (checked under SpecAcq / FairAcq).           *)
(***************************************************************************)

\* C1: the protocol steps happen in a fixed order: a status poll is sent only
\* after the area request was submitted and its response parsed into a job
\* handle with a status URL, and the download request is sent only after a
\* status poll returned a response whose completion flag is present and true
\* (and it is that response the download starts from).
C1_ProtocolOrder ==
    /\ aSent["poll"] > 0 =>
          /\ aSent["submit"] = 1
          /\ area_req \in ProtomapsAreaRequest
    /\ aSent["download"] > 0 =>
          /\ aSent["poll"] > 0
          /\ aReady
          /\ download.complete = "Some(true)"
    /\ aPc \in {"download", "download_wait", "done"} => aReady

\* C1 witness: the extract was downloaded after more than one status poll
C1_Witness ==
    /\ aPc = "done"
    /\ aSent["download"] = 1
    /\ aSent["poll"] >= 2

\* C2: status polling is bounded, so download_pbf terminates (with a download
\* or an error) in every execution, also when every poll succeeds and the
\* completion flag is never set.
C2_PollingTerminates == <>(aPc \in {"done", "error"})

\* C9: a failure of the submit request, of parsing the job handle, or of any
\* status poll ends download_pbf with an error at once: no further request is
\* sent afterwards, and the download request is never sent.
C9_FailureEndsProtocol ==
    /\ [](aFail \in {"submit", "parse", "poll"} =>
            /\ aPc = "error"
            /\ aSent["download"] = 0
            /\ aDlUuid = None)
    /\ [][aFail # None => aSent' = aSent]_vars

\* C9 witness: a status poll failed after an earlier poll had succeeded
C9_Witness ==
    /\ aFail = "poll"
    /\ aPc = "error"
    /\ aSent["poll"] >= 2
    /\ download.complete = "Some(false)"

(***************************************************************************)
(* Properties of the server (checked under Spec, SpecQuery, SpecBoot).     *)
(***************************************************************************)
\* load_base_data and load_layers have returned their data to main
Loaded ==
    /\ streets # None
    /\ buildings # None
    /\ layers # NotLoaded

\* C3: no request handler runs before startup loading has finished: the server
\* is bound and started only after load_base_data returned streets and
\* buildings and load_layers returned the layer set.
C3_NoRequestBeforeLoaded ==
    /\ mPc \in {"bind", "serving", "bind_err"} => Loaded
    /\ \A r \in Reqs : rPc[r] # "idle" => (mPc = "serving" /\ Loaded)

\* C3 witness: a request was answered by a server that built its data at startup
C3_Witness ==
    \E r \in Reqs :
        /\ rPc[r] = "done"
        /\ rOut[r].status = "Ok"
        /\ streets = "pbf"
        /\ layers = StoredLayers

\* C4 (as claimed): across any sequence of startups on the same extract and
\* cache directory the base data is rebuilt from the extract at most once.
C4_RebuiltAtMostOnce == builds <= 1

\* C4 (amended): a startup rebuilds only when no cache file exists (when the
\* file exists it takes the load path); once a startup has got its data from
\* load_base_data the cache file is valid and stays so, and no later startup
\* rebuilds; so at most one rebuild is ever saved.
C4_RebuildOnlyWithoutCache ==
    /\ [][builds' # builds => (mapFile = "absent" /\ streets = None)]_vars
    /\ [][(mapFile # "absent" /\ mPc = "is_file") =>
             (builds' = builds /\ mPc' \in {"load_layers", "panicked"})]_vars
    /\ [](mPc \in {"load_layers", "bind", "serving", "bind_err"} => mapFile = "valid")
    /\ [][mapFile = "valid" => (mapFile' = "valid" /\ builds' = builds)]_vars
    /\ [](saves <= 1)

\* C4 witness: the first startup built and saved, a later one loaded the cache
C4_Witness ==
    /\ startups >= 2
    /\ builds = 1
    /\ saves = 1
    /\ streets = "cache"
    /\ mPc = "serving"

\* C5: station_info and find_station never mutate shared state: a step of a
\* request leaves the layers, streets, buildings, the files and the write side
\* of the lock as they are; a request holds the read side only.
C5_HandlersReadOnly ==
    /\ [][rPc' # rPc =>
            UNCHANGED <<fsVars, layers, streets, buildings, lockWriters, poisoned>>]_vars
    /\ [](\A r \in Reqs : rPc[r] = "locked" => (r \in lockReaders /\ lockWriters = 0))

\* C5 witness: requests of both kinds have been computed side by side
C5_Witness ==
    /\ rPc[1] = "done"
    /\ rPc[2] = "compute"
    /\ rReq[1].kind # rReq[2].kind
    /\ layers = IngestedLayers

\* C6: the layers lock gives multiple-reader/single-writer exclusion: at most
\* one writer, no reader while a writer holds the lock, readers do not block
\* one another, and a reader waits only while a writer holds the lock.
C6_ReadersWriterExclusion ==
    /\ lockWriters <= 1
    /\ lockWriters > 0 => lockReaders = {}
    /\ \A r \in Reqs : r \in lockReaders <=> rPc[r] = "locked"
    /\ \A r \in Reqs : rPc[r] = "start" => (ENABLED ReadLock(r) <=> lockWriters = 0)

\* C6 witness: a station_info and a find_station request hold read access together
C6_Witness ==
    /\ lockReaders = {1, 2}
    /\ rReq[1].kind = "station_info"
    /\ rReq[2].kind = "find_station"

\* C7: when the data directory holds no map extract, startup fails fatally
\* before the server is bound: no request is ever received or answered.
C7_NoExtractIsFatal ==
    /\ [](PbfFile \notin dataDir.files =>
            /\ mPc \in {"start", "load_base", "panicked"}
            /\ mPc = "panicked" => mWhy \in {"setup", "read_dir", "no_pbf"}
            /\ streets = None
            /\ \A r \in Reqs : rPc[r] = "idle" /\ rOut[r] = NoOut)
    /\ [][(PbfFile \notin dataDir.files /\ mPc = "load_base") =>
             mPc' = "panicked"]_vars

\* C7 witness: the directory holds a file, but no extract, and main has panicked
C7_Witness ==
    /\ dataDir = [readable |-> TRUE, files |-> {OtherFile}]
    /\ mPc = "panicked"
    /\ mWhy = "no_pbf"

\* C8: a station_info or find_station request that supplies no station is
\* rejected with an error before any coverage or placement computation is
\* invoked.
C8_NoStationRejected ==
    \A r \in Reqs :
        (rReq[r].kind # None /\ rReq[r].stations = << >> /\ rPc[r] = "done") =>
            (rOut[r].status = "Err" /\ rOut[r].body = << >>)

\* C10: station_info gives exactly one (type, CoverageMap) entry per layer of
\* the merged-by-type layer set, in the same order, one per category, each
\* computed with the request's stations and the same method and routing;
\* find_station makes one call, on the single layer merging all categories.
C10_OneEntryPerCategory ==
    [][\A r \in Reqs :
          (rPc[r] = "compute" /\ rPc'[r] = "done") =>
              LET out == rOut'[r].body
                  merged == rSnap[r]
              IN  IF rReq[r].kind = "station_info"
                    THEN /\ rOut'[r].status = "Ok"
                         /\ Len(out) = Len(merged)
                         /\ \A i \in 1..Len(out) :
                              /\ out[i][1] = merged[i].layer_type
                              /\ out[i][2].fn = "houses_for_stations"
                              /\ out[i][2].centroids = merged[i].centroids
                              /\ out[i][2].stations = rReq[r].stations
                              /\ out[i][2].method = MethodOf(rReq[r])
                              /\ out[i][2].routing = RoutingOf(rReq[r])
                         /\ \A i, j \in 1..Len(out) : out[i][1] = out[j][1] => i = j
                    ELSE /\ rOut'[r].status = "Ok"
                         /\ Len(out) = 1
                         /\ Len(merged) = 1
                         /\ out[1].fn = "find_optimal_station"
                         /\ out[1].centroids = merged[1].centroids
                         /\ out[1].stations = rReq[r].stations]_vars

\* C10 witness: a station_info answer with one entry for each of two categories
C10_Witness ==
    /\ rPc[1] = "done"
    /\ rReq[1].kind = "station_info"
    /\ rReq[1].method = "Absolute"
    /\ rOut[1].status = "Ok"
    /\ Len(rOut[1].body) = 2
    /\ rOut[1].body[1][1] = "Work"

\* C11: find_station never fails for want of an improvement: whenever the
\* layers lock can be read it answers Ok with the one result of
\* find_optimal_station on the request's route and stations and the merged
\* centroids, also when there is nothing to gain; an error only comes from a
\* poisoned lock.
C11_FindStationAlwaysAnswers ==
    /\ [][\A r \in Reqs :
            (rPc[r] = "compute" /\ rPc'[r] = "done" /\ rReq[r].kind = "find_station") =>
                /\ rOut'[r].status = "Ok"
                /\ Len(rOut'[r].body) = 1
                /\ rOut'[r].body[1].fn = "find_optimal_station"
                /\ rOut'[r].body[1].route = Route
                /\ rOut'[r].body[1].centroids = rSnap[r][1].centroids
                /\ rOut'[r].body[1].stations = rReq[r].stations
                /\ rOut'[r].body[1].streets = streets]_vars
    /\ [][\A r \in Reqs :
            (rPc[r] = "start" /\ rPc'[r] = "done") =>
                (poisoned /\ rOut'[r].status = "Err")]_vars
    /\ [](\A r \in Reqs :
            (rPc[r] = "done" /\ rOut[r].status = "Err") => poisoned)

\* C11 witness: find_station answered Ok although no centroid can be gained
C11_Witness ==
    /\ rPc[1] = "done"
    /\ rReq[1].kind = "find_station"
    /\ rReq[1].stations = <<"s1">>
    /\ rOut[1].status = "Ok"
    /\ rOut[1].body[1].centroids = << >>
    /\ ~poisoned

(***************************************************************************)
(* Properties of the coverage computation (checked under SpecCov).         *)
(***************************************************************************)
\* the walking distances on the "T", written out: 0 to itself, 100 along one
\* street, 200 between two of the ends A, C, D (via B); nothing leads to E
TDistance(a, b) ==
    IF a = b THEN 0
    ELSE IF "E" \in {a, b} THEN Unreachable
    ELSE IF "B" \in {a, b} THEN 100
    ELSE 200

Covers(st, c, radius) ==
    /\ TDistance(st, c.at) # Unreachable
    /\ TDistance(st, c.at) <= radius

\* C12: under network-distance routing a centroid is attributed to a station
\* only if its shortest-path distance to that station is at most the coverage
\* radius, and a centroid farther than the radius from every station is in no
\* station's list.  On the "T" with a weight-50 centroid at D and one station:
\* with radius 250 the station at A covers weight 50 and so does the station
\* at C; with radius 150 the CoverageMap is empty for both.
C12_CoverageWithinRadius ==
    cPc = "done" =>
        /\ \A e \in cOut : \A c \in e.centroids :
              \E x \in cIn.centroids :
                  /\ x.id = c.id
                  /\ c.weight = x.weight
                  /\ e.station = cIn.stations[e.index]
                  /\ Covers(e.station, x, cIn.radius)
        /\ \A x \in cIn.centroids :
              (\A i \in 1..Len(cIn.stations) : ~Covers(cIn.stations[i], x, cIn.radius)) =>
                  (\A e \in cOut : \A c \in e.centroids : c.id # x.id)
        /\ \A x \in cIn.centroids :
              (\E i \in 1..Len(cIn.stations) : Covers(cIn.stations[i], x, cIn.radius)) =>
                  (\E e \in cOut : \E c \in e.centroids : c.id = x.id)
        /\ \A st \in {"A", "C"} :
              (/\ cIn.stations = <<st>>
               /\ cIn.centroids = {[id |-> "c1", at |-> "D", weight |-> 50]}) =>
                  IF cIn.radius = 250
                    THEN cOut = { [station |-> st, index |-> 1,
                                   centroids |-> {[id |-> "c1", weight |-> 50,
                                                   among |-> {<<1, 200>>}]}] }
                    ELSE IF cIn.radius = 150 THEN cOut = {}
                    ELSE TRUE

\* C12 witness: the station moved to C, the radius reduced to 150: nothing is covered
C12_Witness ==
    /\ cPc = "done"
    /\ cIn.stations = <<"C">>
    /\ cIn.centroids = {[id |-> "c1", at |-> "D", weight |-> 50]}
    /\ cIn.radius = 150
    /\ cOut = {}

(***************************************************************************)
(* Further properties of download_pbf (checked under SpecAcq / FairAcq).   *)
(***************************************************************************)
\* C13 (as claimed): when no request fails and a status poll returned a true
\* completion flag, exactly one extract download request has been sent by
\* the time download_pbf ends.
C13_ExactlyOneDownload ==
    (aPc \in {"done", "error"} /\ aReady /\ aFail \notin {"client", "submit", "parse", "poll", "download"})
        => aSent["download"] = 1

\* C13 (amended): once a status poll has returned a true completion flag
\* wait_until_ready returns, and it returns that first such response: no
\* further poll is sent; every earlier response (flag false or absent) leads
\* to another poll; after the return one download request is sent if the
\* returned response carries a uuid, and none if it carries none.
C13_ReturnsFirstComplete ==
    /\ [][aPc = "check" =>
            IF download.complete = "Some(true)"
              THEN aPc' = "download" /\ download' = download
              ELSE aPc' = "poll"]_vars
    /\ [][aReady => (aSent'["poll"] = aSent["poll"] /\ download' = download)]_vars
    /\ [][aPc = "poll" => (~aReady /\ aSent'["poll"] >= 1)]_vars
    /\ [](aPc \in {"download", "download_wait", "done"} =>
            (aReady /\ download.complete = "Some(true)"))
    /\ [](aSent["download"] <= 1)
    /\ []((aPc \in {"done", "error"} /\ aReady) =>
            aSent["download"] = (IF download.uuid = None THEN 0 ELSE 1))
    /\ (aReady ~> aPc \in {"done", "error"})

\* C13 witness: the first complete response came after another poll, and the
\* one download request is out
C13_Witness ==
    /\ aPc = "download_wait"
    /\ aSent["poll"] = MaxPolls
    /\ aSent["download"] = 1
    /\ download.complete = "Some(true)"

\* C15: when the completed status response carries no uuid, download() ends
\* with the error "did not get valid uuid for download" and no download
\* request is sent; when it carries one, the download request is addressed
\* with that uuid, not with the uuid of the job handle.
C15_DownloadUsesStatusUuid ==
    /\ [][aPc = "download" =>
            IF download.uuid = None
              THEN /\ aPc' = "error"
                   /\ aFail' = "uuid"
                   /\ aSent' = aSent
                   /\ aDlUuid' = None
              ELSE /\ aSent'["download"] = aSent["download"] + 1
                   /\ aDlUuid' = download.uuid]_vars
    /\ [](aFail = "uuid" => (aSent["download"] = 0 /\ aPc = "error"))
    /\ [](aSent["download"] > 0 => (aDlUuid \in Uuids /\ aDlUuid = download.uuid))

\* C15 witness: the download went out under the status uuid, which is not the
\* uuid of the job handle
C15_Witness ==
    /\ aSent["download"] = 1
    /\ aDlUuid = "u2"
    /\ area_req.uuid = "u1"
    /\ download.uuid = "u2"

(***************************************************************************)
(* Further properties of the server.                                       *)
(***************************************************************************)
\* the centroids of a sequence, as a set
Elems(q) == {q[i] : i \in 1..Len(q)}

\* the centroids the layers ls hold for the types in T
CentroidsOfTypes(ls, T) ==
    UNION {Elems(ls[k].centroids) : k \in {j \in 1..Len(ls) : ls[j].layer_type \in T}}

\* C14: a request holds the read lock only while it takes its merged snapshot
\* and has released it before the computation starts, so a writer is never
\* kept waiting by a computation; the result comes from the request's own
\* inputs and the layers as they were at the one instant of the snapshot,
\* whatever is swapped in afterwards.
C14_LockOnlyForSnapshot ==
    /\ [](\A r \in Reqs : rPc[r] \in {"compute", "done"} => r \notin lockReaders)
    /\ []((/\ mPc = "serving"
           /\ ~poisoned
           /\ lockWriters = 0
           /\ \A r \in Reqs : rPc[r] # "locked") => ENABLED WriteLock)
    /\ [][\A r \in Reqs :
            (rPc[r] = "locked" /\ rPc'[r] = "compute") =>
                /\ r \notin lockReaders'
                /\ layers' = layers
                /\ IF rReq[r].kind = "station_info"
                     THEN /\ {rSnap'[r][i].layer_type : i \in 1..Len(rSnap'[r])}
                               = {layers[k].layer_type : k \in 1..Len(layers)}
                          /\ \A i \in 1..Len(rSnap'[r]) :
                               Elems(rSnap'[r][i].centroids)
                                 = CentroidsOfTypes(layers, {rSnap'[r][i].layer_type})
                     ELSE /\ Len(rSnap'[r]) = 1
                          /\ Elems(rSnap'[r][1].centroids)
                               = CentroidsOfTypes(layers, LayerTypes)]_vars
    /\ [][\A r \in Reqs :
            (rPc[r] = "compute" /\ rPc'[r] = "done") =>
                IF rReq[r].kind = "station_info"
                  THEN /\ Len(rOut'[r].body) = Len(rSnap[r])
                       /\ \A i \in 1..Len(rSnap[r]) :
                            /\ rOut'[r].body[i][1] = rSnap[r][i].layer_type
                            /\ rOut'[r].body[i][2].centroids = rSnap[r][i].centroids
                  ELSE rOut'[r].body[1].centroids = rSnap[r][1].centroids]_vars
    /\ [][\A r \in Reqs :
            (rPc[r] = "compute" /\ rPc'[r] = "compute") => rSnap'[r] = rSnap[r]]_vars

\* C14 witness: an answer computed from the stored layers stands after other
\* layers were swapped in, and a writer holds the lock while a request computes
C14_Witness ==
    /\ rPc[1] = "done"
    /\ rReq[1].kind = "station_info"
    /\ Len(rOut[1].body) = 2
    /\ rOut[1].body[1][2].centroids = <<"c1", "c2", "c4">>
    /\ layers = IngestedLayers
    /\ rPc[2] = "compute"
    /\ lockWriters = 1

\* C16: a cache file that exists but cannot be loaded aborts startup: there
\* is no fallback to a rebuild and the file is not overwritten; a failed save
\* of freshly built data aborts startup too, and the server does not start.
C16_CacheFailureAborts ==
    /\ [][(mPc = "is_file" /\ mapFile = "corrupt") =>
             /\ mPc' = "panicked"
             /\ mWhy' = "load_cache"
             /\ builds' = builds
             /\ saves' = saves]_vars
    /\ [][mapFile = "corrupt" => mapFile' = "corrupt"]_vars
    /\ [](mapFile = "corrupt" => mPc \in {"start", "load_base", "cache_dir", "is_file", "panicked"})
    /\ [][mPc = "save" =>
             \/ mPc' = "load_layers" /\ mapFile' = "valid"
             \/ mPc' = "panicked" /\ mWhy' = "save" /\ mapFile' # "valid"]_vars
    /\ [](mWhy \in {"load_cache", "save"} =>
             /\ mPc = "panicked"
             /\ streets = None
             /\ buildings = None
             /\ layers = NotLoaded)

\* C16 witness: a failed save left a partial file; the next startup found it
\* and aborted instead of rebuilding
C16_Witness ==
    /\ mWhy = "load_cache"
    /\ mPc = "panicked"
    /\ mapFile = "corrupt"
    /\ startups = 2
    /\ builds = 1
    /\ saves = 0

\* C17: load_layers never fails startup: with the persisted layer set missing
\* or not loadable the server goes on with the default, empty layer set, and
\* station_info on it answers Ok with no category entry, not an error.
C17_LoadLayersNeverFails ==
    /\ [][mPc = "load_layers" =>
             /\ mPc' = "bind"
             /\ layersFile # "valid" => layers' = DefaultLayers
             /\ layersFile = "valid" => layers' = StoredLayers]_vars
    /\ [](mPc = "panicked" => mWhy \in {"setup", "read_dir", "no_pbf", "cache_dir",
                                        "load_cache", "build", "save"})
    /\ [][\A r \in Reqs :
            (rPc[r] = "locked" /\ rPc'[r] = "compute" /\ layers = DefaultLayers
               /\ rReq[r].kind = "station_info") => rSnap'[r] = << >>]_vars
    /\ [][\A r \in Reqs :
            (rPc[r] = "compute" /\ rPc'[r] = "done" /\ rSnap[r] = << >>
               /\ rReq[r].kind = "station_info") =>
                 rOut'[r] = [status |-> "Ok", body |-> << >>]]_vars

\* C17 witness: the layers file could not be loaded, the server runs, and
\* station_info was answered Ok without entries
C17_Witness ==
    /\ layersFile = "corrupt"
    /\ mPc = "serving"
    /\ layers = DefaultLayers
    /\ rPc[1] = "done"
    /\ rReq[1].kind = "station_info"
    /\ rReq[1].stations = <<"s1">>
    /\ rOut[1] = [status |-> "Ok", body |-> << >>]

\* C18: method and routing are resolved once per request and handed on
\* unchanged: Relative when the request omits method, Osm when it omits
\* routing, otherwise exactly the value given; find_station always searches
\* with the radius 300.
C18_DefaultsAndRadius ==
    [][\A r \in Reqs :
          (rPc[r] = "compute" /\ rPc'[r] = "done") =>
              LET calls == IF rReq[r].kind = "station_info"
                             THEN {rOut'[r].body[i][2] : i \in 1..Len(rOut'[r].body)}
                             ELSE {rOut'[r].body[i] : i \in 1..Len(rOut'[r].body)}
              IN  /\ \A c \in calls :
                        /\ c.method = (IF rReq[r].method = None THEN "Relative"
                                       ELSE rReq[r].method)
                        /\ c.routing = (IF rReq[r].routing = None THEN "Osm"
                                        ELSE rReq[r].routing)
                        /\ c.fn = "find_optimal_station" => c.radius = 300
                  /\ rReq[r].kind = "find_station" => calls # {}]_vars

\* C18 witness: find_station without method and with a given routing
C18_Witness ==
    /\ rPc[1] = "done"
    /\ rReq[1].kind = "find_station"
    /\ rReq[1].method = None
    /\ rReq[1].routing = "Geo"
    /\ rOut[1].status = "Ok"
    /\ rOut[1].body[1].method = "Relative"
    /\ rOut[1].body[1].routing = "Geo"
    /\ rOut[1].body[1].radius = 300

====
